---- MODULE Spec2Model ----
(***************************************************************************)
(* koa-rest-router: the resource table builder (createResource), the two   *)
(* registries (routes, resources), the accessors and the route grouper of  *)
(* src/index.js.                                                           *)
(*                                                                         *)
(* JavaScript strings are sequences of one-character strings, so that      *)
(* slicing, concatenation and inflection are computed, not assumed.        *)
(* Arrays are heap objects named by their index in `heap`, so that         *)
(* "the same array" and "a new array" are different things.                *)
(***************************************************************************)
EXTENDS Integers, Sequences, FiniteSets, TLC

VARIABLES
  heap,       \* the arrays allocated so far: heap[id] = [elems, name, by]
  routes,     \* routes[r]: id of the array that is router r's this.routes
  resources,  \* resources[r]: id of the array that is router r's this.resources
  options,    \* options[r]: router r's this.options, [methods, map]
  call,       \* the last method call: [op, self, args]
  ret         \* what that call returned

vars == <<heap, routes, resources, options, call, ret>>

(***************************************************************************)
(* Bounds of the model.                                                    *)
(***************************************************************************)
\* resource tables that may be created, over all routers
MaxResources == 2
\* direct calls of addRoutes, addResource and addResources
MaxAdds == 1
\* calls of group
MaxGroups == 1

\* the router instances of the doc example of resource()
Routers == {"api", "router", "fooRouter"}

(***************************************************************************)
(* JavaScript values.                                                      *)
(***************************************************************************)
Undefined == [type |-> "undefined"]
Null == [type |-> "null"]
Str(s) == [type |-> "string", str |-> s]
Num(n) == [type |-> "number", num |-> n]
\* a plain object: its own handler properties, and its methods / map
\* properties (an empty function stands for a property that is not set)
Obj(k, m, p) == [type |-> "object", keys |-> k, methods |-> m, map |-> p]
\* a reference to the array heap[id]
Arr(id) == [type |-> "array", ref |-> id]
\* a reference to a router instance (`this`)
Router(r) == [type |-> "router", self |-> r]
\* a Route Object, as koa-better-router's createRoute builds it
Route(m, r, mw) == [type |-> "route", method |-> m, route |-> r, middlewares |-> mw]

\* typeof v
TypeOf(v) ==
  IF v.type \in {"object", "array", "null", "route", "router"} THEN "object" ELSE v.type

\* if (v): arrays and objects are truthy, undefined and null are not
Truthy(v) ==
  CASE v.type \in {"undefined", "null"} -> FALSE
    [] v.type = "string" -> v.str # <<>>
    [] v.type = "number" -> v.num # 0
    [] OTHER -> TRUE

NoProps == [k \in {} |-> <<>>]

\* b's properties laid over a's (extend-shallow: the later object wins per key)
Extend(a, b) == [k \in (DOMAIN a) \cup (DOMAIN b) |-> IF k \in DOMAIN b THEN b[k] ELSE a[k]]

(***************************************************************************)
(* String literals.                                                        *)
(***************************************************************************)
Slash == <<"/">>
Colon == <<":">>
Empty == <<>>
sNew == <<"n", "e", "w">>
sEdit == <<"e", "d", "i", "t">>
sId == <<"i", "d">>
sCat == <<"c", "a", "t">>
sCats == <<"c", "a", "t", "s">>
sDog == <<"d", "o", "g">>
sDogs == <<"d", "o", "g", "s">>
sSlashDogs == <<"/", "d", "o", "g", "s">>

\* name.slice(1)
Slice1(s) == IF Len(s) <= 1 THEN <<>> ELSE SubSeq(s, 2, Len(s))

\* inflection.pluralize on regular nouns: its rules /s$/ -> 's' and /$/ -> 's'
pluralize(s) ==
  IF Len(s) > 0 /\ s[Len(s)] = "s" THEN s ELSE s \o <<"s">>

\* inflection.singularize on regular nouns: its rule /s$/ -> ''
singularize(s) ==
  IF Len(s) > 0 /\ s[Len(s)] = "s" THEN SubSeq(s, 1, Len(s) - 1) ELSE s

\* String.prototype.toUpperCase on the request method tokens
toUpperCase(m) ==
  CASE m \in {"get", "GET"} -> "GET"
    [] m \in {"post", "POST"} -> "POST"
    [] m \in {"put", "PUT"} -> "PUT"
    [] m \in {"delete", "DELETE"} -> "DELETE"
    [] OTHER -> m

(***************************************************************************)
(* utils: defaults and helpers used by index.js.                           *)
(***************************************************************************)
notImplemented == "notImplemented"

defaultController ==
  [k \in {"index", "new", "create", "show", "edit", "update", "remove"} |-> <<notImplemented>>]

defaultControllerMap ==
  [k \in {"index", "new", "create", "show", "edit", "update", "remove"} |-> k]

defaultRequestMethods ==
  [get |-> "GET", put |-> "PUT", del |-> "DELETE", post |-> "POST"]

\* o[k], with "undefined" for a property that is not set
Prop(o, k) == IF k \in DOMAIN o THEN o[k] ELSE "undefined"

\* a || b on property values
OrElse(a, b) == IF a # "undefined" THEN a ELSE b

\* utils.mergeOptions(options, opts): opts.methods and opts.map laid over the
\* router's, key by key; anything that is no plain object merges nothing
mergeOptions(opt, opts) ==
  IF opts.type = "object"
  THEN [methods |-> Extend(opt.methods, opts.methods), map |-> Extend(opt.map, opts.map)]
  ELSE opt

\* utils.extend({}, utils.defaultController, ctrl)
extendController(ctrl) ==
  IF ctrl.type = "object" THEN Extend(defaultController, ctrl.keys) ELSE defaultController

\* ctrl[key] handed to createRoute, which makes an array of it: a handler list
\* as it is, and no handler at all for a key the controller does not have
arrayify(ctrl, key) == IF key \in DOMAIN ctrl THEN ctrl[key] ELSE <<>>

\* utils.r(route, param, edit): the path pattern of the non-empty segments
r(name, id, edit) ==
  LET seg(s) == IF s # <<>> THEN Slash \o s ELSE <<>>
      url == seg(name) \o seg(id) \o seg(edit)
  IN IF url = <<>> THEN Slash ELSE url

\* Router.prototype.createRoute(method, route, fns) of koa-better-router
createRoute(method, route, fns) == Route(toUpperCase(method), route, fns)

\* utils.createRouteObject(self, dest, src, idx)
createRouteObject(dest, src, idx) ==
  createRoute(dest.method, dest.route \o src[idx].route, src[idx].middlewares)

(***************************************************************************)
(* createResource, step by step.                                           *)
(***************************************************************************)
\* the parameter shift: an object in the name position is the controller,
\* and whatever else is no string is the root resource
shiftArguments(name, ctrl, opts) ==
  LET a == IF TypeOf(name) = "object"
           THEN [name |-> Str(Slash), ctrl |-> name, opts |-> ctrl]
           ELSE [name |-> name, ctrl |-> ctrl, opts |-> opts]
  IN IF TypeOf(a.name) # "string" THEN [a EXCEPT !.name = Str(Slash)] ELSE a

\* let _name = name[0] === '/' ? name.slice(1) : name
stripSlash(name) == IF Len(name) > 0 /\ name[1] = "/" THEN Slice1(name) ELSE name

\* routeOf without the pluralization
routeOf_asGiven(name) == IF name # Slash THEN stripSlash(name) ELSE Empty

\* let route = name !== '/' ? utils.inflection.pluralize(_name) : ''
routeOf(name) == IF name # Slash THEN pluralize(stripSlash(name)) ELSE Empty

\* let param = name !== '/' ? ':' + utils.inflection.singularize(_name) : ':id'
paramOf(name) == IF name # Slash THEN Colon \o singularize(stripSlash(name)) ELSE Colon \o sId

\* the seven src.push(this.createRoute(...)) of createResource
resourceRoutes(opt, route, param, ctrl) ==
  LET _get == Prop(opt.methods, "get")
      _put == Prop(opt.methods, "put")
      _del == OrElse(Prop(opt.methods, "del"), Prop(opt.methods, "delete"))
      _post == Prop(opt.methods, "post")
      _index == Prop(opt.map, "index")
      _new == Prop(opt.map, "new")
      _create == Prop(opt.map, "create")
      _show == Prop(opt.map, "show")
      _edit == Prop(opt.map, "edit")
      _update == Prop(opt.map, "update")
      _remove == Prop(opt.map, "remove")
  IN << createRoute(_get, r(route, Empty, Empty), arrayify(ctrl, _index)),
        createRoute(_get, r(route, sNew, Empty), arrayify(ctrl, _new)),
        createRoute(_post, r(route, Empty, Empty), arrayify(ctrl, _create)),
        createRoute(_get, r(route, param, Empty), arrayify(ctrl, _show)),
        createRoute(_get, r(route, param, sEdit), arrayify(ctrl, _edit)),
        createRoute(_put, r(route, param, Empty), arrayify(ctrl, _update)),
        createRoute(_del, r(route, param, Empty), arrayify(ctrl, _remove)) >>

\* src.name = route === '' ? '/' : route
resourceName(route) == IF route = Empty THEN Slash ELSE route

\* createResource that merges opts for this call only and leaves this.options
createResource_localOptions(opt, name, ctrl, opts) ==
  LET a == shiftArguments(name, ctrl, opts)
      route == routeOf(a.name.str)
      param == paramOf(a.name.str)
      merged == mergeOptions(opt, a.opts)
  IN [options |-> opt,
      src |-> [elems |-> resourceRoutes(merged, route, param, extendController(a.ctrl)),
               name |-> Str(resourceName(route)),
               by |-> "createResource"]]

\* createResource as a function of this.options and its arguments: the
\* options it leaves in this.options and the array src it builds
createResource(opt, name, ctrl, opts) ==
  LET a == shiftArguments(name, ctrl, opts)
      route == routeOf(a.name.str)
      param == paramOf(a.name.str)
      merged == mergeOptions(opt, a.opts)
  IN [options |-> merged,
      src |-> [elems |-> resourceRoutes(merged, route, param, extendController(a.ctrl)),
               name |-> Str(resourceName(route)),
               by |-> "createResource"]]

(***************************************************************************)
(* Array operations.                                                       *)
(***************************************************************************)
\* a new array object without a name property; `by` is the method whose call
\* allocated it
NewArray(elems, by) == [elems |-> elems, name |-> Undefined, by |-> by]

\* s without the elements that occur earlier in s
RECURSIVE Dedup(_)
Dedup(s) ==
  IF s = <<>> THEN <<>>
  ELSE LET front == Dedup(SubSeq(s, 1, Len(s) - 1))
           last == s[Len(s)]
       IN IF \E i \in 1..Len(front) : front[i] = last THEN front ELSE Append(front, last)

\* concat that drops the elements it has already
RECURSIVE concat_unique(_, _, _)
concat_unique(h, base, args) ==
  IF args = <<>> THEN Dedup(base)
  ELSE LET a == Head(args)
       IN concat_unique(h, base \o (IF a.type = "array" THEN h[a.ref].elems ELSE <<a>>), Tail(args))

\* Array.prototype.concat: an array argument is spread one level, anything
\* else is appended as one element
RECURSIVE concat(_, _, _)
concat(h, base, args) ==
  IF args = <<>> THEN base
  ELSE LET a == Head(args)
       IN concat(h, base \o (IF a.type = "array" THEN h[a.ref].elems ELSE <<a>>), Tail(args))

\* addRoutes that starts from an empty array instead of this.routes
addRoutes_replacing(h, thisRoutes, args) == concat(h, <<>>, args)

\* this.routes.concat.apply(this.routes, arguments)
addRoutes(h, thisRoutes, args) == concat(h, h[thisRoutes].elems, args)

\* group that takes the middlewares of the first source, not of the last
group_firstWins(h, dest, src1, src2, src3, src4) ==
  LET one(index) ==
        LET destRoute == h[dest.ref].elems[index]
            route1 == createRouteObject(destRoute, h[src1.ref].elems, index)
            route2 == IF Truthy(src2) THEN createRouteObject(route1, h[src2.ref].elems, index) ELSE route1
            route3 == IF Truthy(src3) THEN createRouteObject(route2, h[src3.ref].elems, index) ELSE route2
            route4 == IF Truthy(src4) THEN createRouteObject(route3, h[src4.ref].elems, index) ELSE route3
        IN [route4 EXCEPT !.middlewares = route1.middlewares]
  IN [index \in 1..Len(h[dest.ref].elems) |-> one(index)]

\* the array dest.map(...) of group builds
group(h, dest, src1, src2, src3, src4) ==
  LET one(index) ==
        LET destRoute == h[dest.ref].elems[index]
            route1 == createRouteObject(destRoute, h[src1.ref].elems, index)
            route2 == IF Truthy(src2) THEN createRouteObject(route1, h[src2.ref].elems, index) ELSE route1
            route3 == IF Truthy(src3) THEN createRouteObject(route2, h[src3.ref].elems, index) ELSE route2
            route4 == IF Truthy(src4) THEN createRouteObject(route3, h[src4.ref].elems, index) ELSE route3
        IN route4
  IN [index \in 1..Len(h[dest.ref].elems) |-> one(index)]

\* getResource without the break: the last element whose name is name
RECURSIVE getResource_noBreak(_, _, _)
getResource_noBreak(h, list, name) ==
  IF list = <<>> THEN Null
  ELSE IF h[list[Len(list)].ref].name = name THEN list[Len(list)]
  ELSE getResource_noBreak(h, SubSeq(list, 1, Len(list) - 1), name)

\* the loop of getResource: the first element of this.resources whose name is name
RECURSIVE getResource(_, _, _)
getResource(h, list, name) ==
  IF list = <<>> THEN Null
  ELSE IF h[Head(list).ref].name = name THEN Head(list)
  ELSE getResource(h, Tail(list), name)

(***************************************************************************)
(* Init: the routers right after construction.                             *)
(***************************************************************************)
RouterSeq == <<"api", "router", "fooRouter">>

Index(x) == CHOOSE i \in 1..Len(RouterSeq) : RouterSeq[i] = x

Init ==
  /\ heap = [i \in 1..(2 * Len(RouterSeq)) |-> NewArray(<<>>, "constructor")]
  /\ routes = [x \in Routers |-> 2 * Index(x) - 1]
  /\ resources = [x \in Routers |-> 2 * Index(x)]
  /\ options = [x \in Routers |-> [methods |-> defaultRequestMethods, map |-> defaultControllerMap]]
  /\ call = [op |-> "new", self |-> "api", args |-> <<>>]
  /\ ret = Undefined

(***************************************************************************)
(* The methods of KoaRestRouter.prototype.                                 *)
(***************************************************************************)
Called(op, self, args) == call' = [op |-> op, self |-> self, args |-> args]

\* how many arrays the calls of the methods in `ops` have allocated
NumBy(ops) == Cardinality({i \in 1..Len(heap) : heap[i].by \in ops})

AddOps == {"addRoutes", "addResource", "addResources"}

CreateResource(self, name, ctrl, opts) ==
  /\ NumBy({"createResource"}) < MaxResources
  /\ LET res == createResource(options[self], name, ctrl, opts)
         id == Len(heap) + 1
     IN /\ heap' = Append([heap EXCEPT ![resources[self]].elems = Append(@, Arr(id))], res.src)
        /\ options' = [options EXCEPT ![self] = res.options]
        /\ ret' = Arr(id)
  /\ Called("createResource", self, <<name, ctrl, opts>>)
  /\ UNCHANGED <<routes, resources>>

\* addRoutes that pushes the new elements onto this.routes itself
AddRoutes_inPlace(self, args) ==
  /\ NumBy(AddOps) < MaxAdds
  /\ heap' = Append([heap EXCEPT ![routes[self]].elems = addRoutes(heap, routes[self], args)],
                    NewArray(<<>>, "addRoutes"))
  /\ ret' = Router(self)
  /\ Called("addRoutes", self, args)
  /\ UNCHANGED <<routes, resources, options>>

AddRoutes(self, args) ==
  /\ NumBy(AddOps) < MaxAdds
  /\ heap' = Append(heap, NewArray(addRoutes(heap, routes[self], args), "addRoutes"))
  /\ routes' = [routes EXCEPT ![self] = Len(heap) + 1]
  /\ ret' = Router(self)
  /\ Called("addRoutes", self, args)
  /\ UNCHANGED <<resources, options>>

AddResource(self, resource) ==
  /\ NumBy(AddOps) < MaxAdds
  /\ heap' = Append(heap, NewArray(addRoutes(heap, routes[self], <<resource>>), "addResource"))
  /\ routes' = [routes EXCEPT ![self] = Len(heap) + 1]
  /\ ret' = Router(self)
  /\ Called("addResource", self, <<resource>>)
  /\ UNCHANGED <<resources, options>>

AddResources(self, args) ==
  /\ NumBy(AddOps) < MaxAdds
  /\ heap' = Append(heap, NewArray(addRoutes(heap, routes[self], args), "addResources"))
  /\ routes' = [routes EXCEPT ![self] = Len(heap) + 1]
  /\ ret' = Router(self)
  /\ Called("addResources", self, args)
  /\ UNCHANGED <<resources, options>>

Resource(self, name, ctrl, opts) ==
  /\ NumBy({"createResource"}) < MaxResources
  /\ LET res == createResource(options[self], name, ctrl, opts)
         id == Len(heap) + 1
         h1 == Append([heap EXCEPT ![resources[self]].elems = Append(@, Arr(id))], res.src)
     IN /\ heap' = Append(h1, NewArray(addRoutes(h1, routes[self], <<Arr(id)>>), "resource"))
        /\ options' = [options EXCEPT ![self] = res.options]
        /\ routes' = [routes EXCEPT ![self] = id + 1]
  /\ ret' = Router(self)
  /\ Called("resource", self, <<name, ctrl, opts>>)
  /\ UNCHANGED resources

GetRoutes(self) ==
  /\ ret' = Arr(routes[self])
  /\ Called("getRoutes", self, <<>>)
  /\ UNCHANGED <<heap, routes, resources, options>>

GetResources(self) ==
  /\ ret' = Arr(resources[self])
  /\ Called("getResources", self, <<>>)
  /\ UNCHANGED <<heap, routes, resources, options>>

GetResource(self, name) ==
  /\ ret' = getResource(heap, heap[resources[self]].elems, name)
  /\ Called("getResource", self, <<name>>)
  /\ UNCHANGED <<heap, routes, resources, options>>

\* group that writes the grouped routes into dest as well
Group_intoDest(self, dest, src1, src2, src3, src4) ==
  /\ NumBy({"group"}) < MaxGroups
  /\ LET res == group(heap, dest, src1, src2, src3, src4)
     IN heap' = Append([heap EXCEPT ![dest.ref].elems = res], NewArray(res, "group"))
  /\ ret' = Arr(Len(heap) + 1)
  /\ Called("group", self, <<dest, src1, src2, src3, src4>>)
  /\ UNCHANGED <<routes, resources, options>>

Group(self, dest, src1, src2, src3, src4) ==
  /\ NumBy({"group"}) < MaxGroups
  /\ heap' = Append(heap, NewArray(group(heap, dest, src1, src2, src3, src4), "group"))
  /\ ret' = Arr(Len(heap) + 1)
  /\ Called("group", self, <<dest, src1, src2, src3, src4>>)
  /\ UNCHANGED <<routes, resources, options>>

(***************************************************************************)
(* The calls the model makes.                                              *)
(***************************************************************************)
\* controllers: index and show only; the renamed list only
ctrlIndexShow == Obj([index |-> <<"h1">>, show |-> <<"h1", "h2">>], NoProps, NoProps)
ctrlList == Obj([list |-> <<"h3">>], NoProps, NoProps)
\* option overrides
optsPut == Obj(NoProps, [put |-> "post"], NoProps)
optsMap == Obj(NoProps, NoProps, [index |-> "list"])

\* the (name, ctrl, opts) argument lists of createResource and resource
CreateArgs ==
  { <<Str(sCats), Undefined, Undefined>>,
    <<Str(sCat), ctrlIndexShow, Undefined>>,
    <<Str(sSlashDogs), ctrlIndexShow, Undefined>>,
    <<Str(sDog), ctrlList, optsMap>>,
    <<Str(sDog), ctrlIndexShow, optsMap>>,
    <<Str(sCats), Undefined, optsPut>>,
    <<Str(Slash), Undefined, Undefined>>,
    <<Str(Empty), Undefined, Undefined>>,
    <<Undefined, Undefined, Undefined>>,
    <<Num(42), ctrlIndexShow, Undefined>>,
    <<Null, Undefined, Undefined>>,
    <<ctrlIndexShow, Undefined, Undefined>>,
    <<ctrlList, optsMap, Undefined>> }

\* the names getResource is asked for
LookupNames == {Str(sCats), Str(sDogs), Str(Slash), Str(sCat)}

\* every array there is
Arrays == {Arr(i) : i \in 1..Len(heap)}

\* the resource tables there are
Tables == {a \in Arrays : heap[a.ref].by = "createResource"}

\* the lists of at most two values out of S
Lists(S) == UNION {[1..n -> S] : n \in 0..2}

\* whether heap[v.ref] is a sequence of Route Objects
IsRoutes(h, v) ==
  /\ v.type = "array"
  /\ \A i \in 1..Len(h[v.ref].elems) : h[v.ref].elems[i].type = "route"

\* the arrays of Route Objects group can be given
RouteArrays == {a \in Arrays : IsRoutes(heap, a) /\ heap[a.ref].elems # <<>>}

(***************************************************************************)
(* Spec: one router building resources and looking them up.                *)
(***************************************************************************)
Next ==
  \E self \in {"api"} :
    \/ \E a \in CreateArgs : CreateResource(self, a[1], a[2], a[3])
    \/ \E a \in CreateArgs : Resource(self, a[1], a[2], a[3])
    \/ GetRoutes(self)
    \/ GetResources(self)
    \/ \E name \in LookupNames : GetResource(self, name)

Spec == Init /\ [][Next]_vars

(***************************************************************************)
(* SpecRegister: api creates resources, router registers resources, and    *)
(* their arrays are added to the routes of router and fooRouter.           *)
(***************************************************************************)
catsArgs == <<Str(sCats), Undefined, Undefined>>
dogsArgs == <<Str(sDog), ctrlIndexShow, Undefined>>

\* what a caller adding routes passes: api.getResources(), router.getRoutes()
\* and the resource tables
Held == {Arr(resources["api"]), Arr(routes["router"])} \cup Tables

NextRegister ==
  \/ CreateResource("api", catsArgs[1], catsArgs[2], catsArgs[3])
  \/ Resource("router", dogsArgs[1], dogsArgs[2], dogsArgs[3])
  \/ /\ NumBy(AddOps) < MaxAdds
     /\ \E self \in {"router", "fooRouter"} :
          \/ \E args \in Lists(Held) : AddRoutes(self, args)
          \/ \E res \in Tables : AddResource(self, res)
          \/ \E args \in Lists(Tables) : AddResources(self, args)
  \/ \E self \in {"router", "fooRouter"} : GetRoutes(self)
  \/ GetResources("api")

SpecRegister == Init /\ [][NextRegister]_vars

(***************************************************************************)
(* SpecGroup: one router creating two resources, once each, and grouping   *)
(* them and the grouped results.                                           *)
(***************************************************************************)
\* the arrays group is given: resource tables and earlier results of group
Groupable == {a \in Arrays : heap[a.ref].by \in {"createResource", "group"}}

NextGroup ==
  \E self \in {"api"} :
    \/ /\ getResource(heap, heap[resources[self]].elems, Str(sCats)) = Null
       /\ CreateResource(self, catsArgs[1], catsArgs[2], catsArgs[3])
    \/ /\ getResource(heap, heap[resources[self]].elems, Str(sDogs)) = Null
       /\ Resource(self, dogsArgs[1], dogsArgs[2], dogsArgs[3])
    \/ /\ NumBy({"group"}) < MaxGroups
       /\ \E dest, src1 \in Groupable : \E src2, src3, src4 \in Tables \cup {Undefined} :
            Group(self, dest, src1, src2, src3, src4)
    \/ /\ NumBy(AddOps) < MaxAdds
       /\ \E res \in Arrays : heap[res.ref].by = "group" /\ AddResource(self, res)

SpecGroup == Init /\ [][NextGroup]_vars

(***************************************************************************)
(* Properties.                                                             *)
(***************************************************************************)
DefaultOptions == [methods |-> defaultRequestMethods, map |-> defaultControllerMap]

\* the elements of router x's routes and resources in a state
RoutesOf(x) == heap[routes[x]].elems
ResourcesOf(x) == heap[resources[x]].elems

\* the methods and the routes (path patterns) of a sequence of Route Objects
Verbs(t) == [i \in 1..Len(t) |-> t[i].method]
Paths(t) == [i \in 1..Len(t) |-> t[i].route]

DefaultVerbs == <<"GET", "GET", "POST", "GET", "GET", "PUT", "DELETE">>

\* the seven path patterns of the table of section 4.1, written out
Patterns(route, param) ==
  << Slash \o route,
     Slash \o route \o Slash \o sNew,
     Slash \o route,
     Slash \o route \o Slash \o param,
     Slash \o route \o Slash \o param \o Slash \o sEdit,
     Slash \o route \o Slash \o param,
     Slash \o route \o Slash \o param >>

\* the last call was createResource with a string as its name
CreatedNamed == call.op = "createResource" /\ call.args[1].type = "string"

\* C1 as stated: for any resource name n and the default configuration,
\* createResource(n) returns exactly 7 descriptors with the verbs GET, GET, POST,
\* GET, GET, PUT, DELETE and the path patterns built from route = pluralize(n) and
\* param = ':' + singularize(n).
C1_AnyName ==
  (CreatedNamed /\ options[call.self] = DefaultOptions) =>
    LET n == call.args[1].str
        t == heap[ret.ref].elems
    IN /\ Len(t) = 7
       /\ Verbs(t) = DefaultVerbs
       /\ Paths(t) = Patterns(pluralize(n), Colon \o singularize(n))

\* C1 (amended): for any resource name n other than the root marker '/', with at
\* most one leading '/' of n left out, and the default configuration,
\* createResource(n) returns exactly 7 descriptors in the order index, new, create,
\* show, edit, update, remove with the verbs GET, GET, POST, GET, GET, PUT, DELETE
\* and the path patterns /{route}, /{route}/new, /{route}, /{route}/{param},
\* /{route}/{param}/edit, /{route}/{param}, /{route}/{param}, where route is the
\* pluralized and param is ':' followed by the singularized name.
C1_NonRootName ==
  (CreatedNamed /\ call.args[1].str # Slash /\ options[call.self] = DefaultOptions) =>
    LET given == call.args[1].str
        n == IF given # <<>> /\ Head(given) = "/" THEN Tail(given) ELSE given
        t == heap[ret.ref].elems
    IN /\ Len(t) = 7
       /\ Verbs(t) = DefaultVerbs
       /\ Paths(t) = Patterns(pluralize(n), Colon \o singularize(n))

\* createResource('cat') under defaults: the show route is /cats/:cat
C1_Witness ==
  /\ call.op = "createResource"
  /\ call.args[1] = Str(sCat)
  /\ options[call.self] = DefaultOptions
  /\ heap[ret.ref].elems[4].route = <<"/", "c", "a", "t", "s", "/", ":", "c", "a", "t">>
  /\ heap[ret.ref].elems[4].method = "GET"

\* whether old is a prefix of new
IsPrefix(old, new) == Len(old) <= Len(new) /\ SubSeq(new, 1, Len(old)) = old

\* C2: every createResource call leaves routes unchanged and appends exactly 1
\* table to resources; every resource call appends exactly 7 descriptors to routes
\* and exactly 1 table to resources; no entry of resources is ever removed, and
\* resources.length is the number of createResource plus resource calls, each of
\* which allocates one table.
C2_Registries ==
  /\ [][ \A x \in Routers :
           /\ IsPrefix(ResourcesOf(x), ResourcesOf(x)')
           /\ (call'.op = "createResource" /\ call'.self = x) =>
                /\ routes' = routes
                /\ RoutesOf(x)' = RoutesOf(x)
                /\ Len(ResourcesOf(x)') = Len(ResourcesOf(x)) + 1
           /\ (call'.op = "resource" /\ call'.self = x) =>
                /\ IsPrefix(RoutesOf(x), RoutesOf(x)')
                /\ Len(RoutesOf(x)') = Len(RoutesOf(x)) + 7
                /\ \A i \in 1..Len(RoutesOf(x)') : RoutesOf(x)'[i].type = "route"
                /\ Len(ResourcesOf(x)') = Len(ResourcesOf(x)) + 1
       ]_vars
  /\ [](Len(ResourcesOf("api")) = NumBy({"createResource"}))

\* a resource call and then a createResource call: 7 routes, 2 tables
C2_Witness ==
  /\ call.op = "createResource"
  /\ Len(RoutesOf("api")) = 7
  /\ Len(ResourcesOf("api")) = 2

\* the indices of the tables in list whose name attribute is name
Matches(list, name) == {i \in 1..Len(list) : heap[list[i].ref].name = name}

\* C4: getResource(name) returns the first table of resources, in creation order,
\* whose name attribute equals name, as the very array createResource allocated
\* and put into resources (the same reference, no copy), and null when there is
\* none; it changes neither routes nor resources.
C4_GetResource ==
  [][ call'.op = "getResource" =>
        /\ UNCHANGED <<heap, routes, resources>>
        /\ LET list == ResourcesOf(call'.self)
               m == Matches(list, call'.args[1])
           IN IF m = {}
              THEN ret' = Null
              ELSE /\ ret' = list[CHOOSE i \in m : \A j \in m : i <= j]
                   /\ heap[ret'.ref].by = "createResource"
    ]_vars

\* two tables named cats, and getResource('cats') returns the first of them
C4_Witness ==
  /\ call = [op |-> "getResource", self |-> "api", args |-> <<Str(sCats)>>]
  /\ Len(ResourcesOf("api")) = 2
  /\ heap[ResourcesOf("api")[1].ref].name = Str(sCats)
  /\ heap[ResourcesOf("api")[2].ref].name = Str(sCats)
  /\ ret = ResourcesOf("api")[1]
  /\ ret # ResourcesOf("api")[2]

\* the opts a createResource or resource call ends up with, given its arguments
OptsOf(args) == IF TypeOf(args[1]) = "object" THEN args[2] ELSE args[3]

\* whether opts sets methods.put to 'post'
PutIsPost(opts) ==
  opts.type = "object" /\ "put" \in DOMAIN opts.methods /\ opts.methods["put"] = "post"

\* whether opts sets methods.put at all
SetsPut(opts) == opts.type = "object" /\ "put" \in DOMAIN opts.methods

\* the table a createResource or resource step allocates
NewTable == heap'[Len(heap) + 1]

\* C6: when a createResource or resource call passes methods.put = 'post', the
\* update descriptor of the table it creates uses POST, the override stays in the
\* router's options, and the update descriptor of every resource created later on
\* that router without a further override of methods.put uses POST too.
C6_PutOverride ==
  [][ \A x \in Routers :
        (call'.op \in {"createResource", "resource"} /\ call'.self = x) =>
          /\ PutIsPost(OptsOf(call'.args)) =>
               /\ NewTable.elems[6].method = "POST"
               /\ options'[x].methods["put"] = "post"
          /\ (options[x].methods["put"] = "post" /\ ~ SetsPut(OptsOf(call'.args))) =>
               /\ NewTable.elems[6].method = "POST"
               /\ options'[x].methods["put"] = "post"
    ]_vars

\* createResource('cats') without options, after an earlier override: POST
C6_Witness ==
  /\ call = [op |-> "createResource", self |-> "api",
             args |-> <<Str(sCats), Undefined, Undefined>>]
  /\ Len(ResourcesOf("api")) = 2
  /\ heap[ResourcesOf("api")[1].ref].elems[6].method = "POST"
  /\ heap[ret.ref].elems[6].method = "POST"
  /\ heap[ret.ref].elems[6].route = <<"/", "c", "a", "t", "s", "/", ":", "c", "a", "t">>

\* C7 as stated: for every createResource call, with any controller and any map
\* overrides in effect, each of the seven descriptors of the table has at least
\* one handler.
C7_EveryActionHandled ==
  \A i \in 1..Len(heap) :
    heap[i].by = "createResource" =>
      \A j \in 1..Len(heap[i].elems) : Len(heap[i].elems[j].middlewares) >= 1

\* the root paths of C8
RootPaths ==
  << <<"/">>, <<"/", "n", "e", "w">>, <<"/">>, <<"/", ":", "i", "d">>,
     <<"/", ":", "i", "d", "/", "e", "d", "i", "t">>, <<"/", ":", "i", "d">>,
     <<"/", ":", "i", "d">> >>

\* whether v, passed as the name, is a root or empty name in the sense of C8
RootOrEmpty(v) ==
  \/ v.type # "string"
  \/ v.str = Slash
  \/ v.str = Empty

\* C8 as stated: createResource with a root or empty name (omitted, '/', the
\* empty string, a non-string, an object in the name position) gives the paths
\* /, /new, /, /:id, /:id/edit, /:id, /:id and the name attribute '/', with the
\* verbs GET, GET, POST, GET, GET, PUT, DELETE under the defaults.
C8_RootOrEmptyName ==
  (call.op = "createResource" /\ RootOrEmpty(call.args[1])) =>
    LET t == heap[ret.ref]
    IN /\ Paths(t.elems) = RootPaths
       /\ t.name = Str(Slash)
       /\ options[call.self] = DefaultOptions => Verbs(t.elems) = DefaultVerbs

\* the same without the empty string, which the code does not treat as the root
C8_RootName ==
  (call.op = "createResource" /\ RootOrEmpty(call.args[1]) /\ call.args[1] # Str(Empty)) =>
    LET t == heap[ret.ref]
    IN /\ Paths(t.elems) = RootPaths
       /\ t.name = Str(Slash)
       /\ options[call.self] = DefaultOptions => Verbs(t.elems) = DefaultVerbs

\* the sources of a group call: its arguments after dest, up to the first that
\* is not given
RECURSIVE Given(_)
Given(args) ==
  IF args = <<>> \/ Head(args).type # "array" THEN <<>> ELSE <<Head(args)>> \o Given(Tail(args))

\* the paths of the i-th elements of the arrays in srcs, one after the other
RECURSIVE Nested(_, _)
Nested(srcs, i) ==
  IF srcs = <<>> THEN <<>> ELSE heap[Head(srcs).ref].elems[i].route \o Nested(Tail(srcs), i)

\* C3: for equal-length descriptor sequences dest and s1..sk (1 <= k <= 4),
\* group(dest, s1, ..., sk) returns dest.length descriptors; at every index i the
\* verb is dest[i]'s, the path is dest[i]'s followed by s1[i]'s, ..., sk[i]'s in
\* argument order, and the handlers are exactly sk[i]'s.
C3_Group ==
  LET dest == call.args[1]
      srcs == Given(Tail(call.args))
      k == Len(srcs)
  IN (/\ call.op = "group"
      /\ k >= 1
      /\ \A j \in (k + 2)..5 : call.args[j] = Undefined
      /\ \A j \in 1..k : Len(heap[srcs[j].ref].elems) = Len(heap[dest.ref].elems)) =>
       LET d == heap[dest.ref].elems
           out == heap[ret.ref].elems
       IN /\ Len(out) = Len(d)
          /\ \A i \in 1..Len(d) :
               /\ out[i].type = "route"
               /\ out[i].method = d[i].method
               /\ out[i].route = d[i].route \o Nested(srcs, i)
               /\ out[i].middlewares = heap[srcs[k].ref].elems[i].middlewares

\* group(cats, dogs, cats, dogs, cats): four sources, the handlers of the last
C3_Witness ==
  /\ call.op = "group"
  /\ \A j \in 1..5 : call.args[j].type = "array"
  /\ heap[call.args[1].ref].name = Str(sCats)
  /\ heap[call.args[2].ref].name = Str(sDogs)
  /\ heap[call.args[5].ref].name = Str(sCats)
  /\ heap[ret.ref].elems[4].middlewares = <<notImplemented>>
  /\ heap[call.args[2].ref].elems[4].middlewares = <<"h1", "h2">>
  /\ heap[ret.ref].elems[1].route =
       <<"/", "c", "a", "t", "s">> \o <<"/", "d", "o", "g", "s">> \o <<"/", "c", "a", "t", "s">>
         \o <<"/", "d", "o", "g", "s">> \o <<"/", "c", "a", "t", "s">>

\* C9: group registers nothing and mutates nothing: every array there was before
\* the call (dest, the sources, the routes and resources registries) and every
\* descriptor in them is what it was, routes and resources are the same arrays,
\* and the result is a new array, which is no element of any registry.
C9_GroupFrame ==
  [][ call'.op = "group" =>
        /\ routes' = routes
        /\ resources' = resources
        /\ Len(heap') = Len(heap) + 1
        /\ \A i \in 1..Len(heap) : heap'[i] = heap[i]
        /\ ret' = Arr(Len(heap) + 1)
        /\ \A x \in Routers : \A i \in 1..Len(ResourcesOf(x)') : ResourcesOf(x)'[i] # ret'
    ]_vars

\* a group call on a router that has 7 routes registered, and still has
C9_Witness ==
  /\ call.op = "group"
  /\ call.args[1] # call.args[2]
  /\ Len(RoutesOf("api")) = 7
  /\ ret.ref = Len(heap)
  /\ Len(heap[ret.ref].elems) = 7

\* C5: for descriptor sequences a and b, addRoutes(a, b) makes routes the previous
\* routes followed by the elements of a followed by the elements of b, so that
\* routes.length == before + a.length + b.length, in order and with nothing
\* dropped as a duplicate; resources is unchanged.
C5_AddRoutes ==
  [][ \A x \in Routers :
        (/\ call'.op = "addRoutes"
         /\ call'.self = x
         /\ Len(call'.args) = 2
         /\ IsRoutes(heap, call'.args[1])
         /\ IsRoutes(heap, call'.args[2])) =>
          LET a == heap[call'.args[1].ref].elems
              b == heap[call'.args[2].ref].elems
          IN /\ RoutesOf(x)' = RoutesOf(x) \o a \o b
             /\ Len(RoutesOf(x)') = Len(RoutesOf(x)) + Len(a) + Len(b)
             /\ resources' = resources
             /\ \A y \in Routers : ResourcesOf(y)' = ResourcesOf(y)
    ]_vars

\* router.addRoutes(dogs, dogs) after router.resource('dog'): 21 routes, the
\* seven of dogs three times over
C5_Witness ==
  /\ call.op = "addRoutes"
  /\ call.self = "router"
  /\ Len(call.args) = 2
  /\ call.args[1] = call.args[2]
  /\ heap[call.args[1].ref].name = Str(sDogs)
  /\ Len(RoutesOf("router")) = 21
  /\ RoutesOf("router")[1] = RoutesOf("router")[8]
  /\ RoutesOf("router")[8] = RoutesOf("router")[15]

\* C10 as stated: on a router with empty routes,
\* addRoutes(A.getResources(), B.getRoutes()), with one 7-route resource created
\* on A and one 7-route resource registered on B, leaves routes with 14 elements,
\* each of them a single route descriptor.
C10_Combined ==
  [][ \A x \in Routers :
        (/\ call'.op = "addRoutes"
         /\ call'.self = x
         /\ RoutesOf(x) = <<>>
         /\ call'.args = <<Arr(resources["api"]), Arr(routes["router"])>>
         /\ Len(ResourcesOf("api")) = 1
         /\ Len(heap[ResourcesOf("api")[1].ref].elems) = 7
         /\ Len(ResourcesOf("router")) = 1
         /\ Len(RoutesOf("router")) = 7) =>
          /\ Len(RoutesOf(x)') = 14
          /\ \A i \in 1..Len(RoutesOf(x)') : RoutesOf(x)'[i].type = "route"
    ]_vars

\* the methods that go through addRoutes
RegisterOps == {"addRoutes", "addResource", "addResources", "resource"}

\* C11: addRoutes, and with it addResource, addResources and resource, never
\* changes the array that was routes before the call: that array, which is what
\* getRoutes() returned before, keeps its length and contents, and routes becomes
\* an array allocated by the call, so that a later getRoutes() returns another
\* object than the earlier one.
C11_RoutesReplaced ==
  [][ \A x \in Routers :
        /\ (call'.op \in RegisterOps /\ call'.self = x) =>
             /\ heap'[routes[x]] = heap[routes[x]]
             /\ routes'[x] # routes[x]
             /\ routes'[x] > Len(heap)
             /\ \A y \in Routers \ {x} : routes'[y] = routes[y]
        /\ (call'.op = "getRoutes" /\ call'.self = x) =>
             /\ ret' = Arr(routes[x])
             /\ UNCHANGED <<heap, routes>>
    ]_vars

\* router.addRoutes(...) after router.resource('dog'): the array resource left as
\* routes still has its 7 elements, and routes is another array, of 14
C11_Witness ==
  /\ call.op = "addRoutes"
  /\ call.self = "router"
  /\ Len(RoutesOf("router")) = 14
  /\ heap[routes["router"]].by = "addRoutes"
  /\ \E i \in 1..Len(heap) :
       /\ i # routes["router"]
       /\ heap[i].by = "resource"
       /\ Len(heap[i].elems) = 7
       /\ heap[i].elems = SubSeq(RoutesOf("router"), 1, 7)

====
